---- MODULE Spec2Model ----
(***************************************************************************)
(* The go-kit greeting service of src/go-kit/main.go: greetService.Hello,  *)
(* the loggingMiddleware decorator, the endpoint built by                  *)
(* makeHelloEndpoint, decodeHelloRequest / encodeHelloResponse, and the    *)
(* kithttp server that main binds to /hello, which runs decode, endpoint   *)
(* and encode for each request in the request's own goroutine.             *)
(*                                                                         *)
(* A Go string is a sequence of one-character strings.  An error value is  *)
(* a record: Nil, or ErrorsNew(msg).                                       *)
(***************************************************************************)
EXTENDS Integers, Sequences, FiniteSets, TLC

VARIABLES
    pc,        \* per request: where its goroutine stands in ServeHTTP
    body,      \* per request: the HTTP request body
    request,   \* per request: the helloRequest decodeHelloRequest returned
    frame,     \* per activation of loggingMiddleware.Hello: s, output, err
    nextCalls, \* per request: the arguments mw.next.Hello was called with
    inner,     \* per request: what mw.next.Hello returned
    svcRet,    \* per request: what svc.Hello returned to the endpoint
    response,  \* per request: the helloResponse the endpoint built
    epErr,     \* per request: the error the endpoint returned
    status,    \* per request: the HTTP status written (0: none yet)
    wire,      \* per request: the members of the JSON object written
    log,       \* the records written through logger, in order
    hist       \* per request: the steps taken so far

vars == <<pc, body, request, frame, nextCalls, inner, svcRet, response,
          epErr, status, wire, log, hist>>

----------------------------------------------------------------------------
(* Bounds *)

\* Requests in flight at once.
NumRequests == 2

\* Longest name drawn when one request is handled alone.
MaxLen == 3

\* Largest value of time.Since(begin), in clock ticks.
MaxTook == 1

Requests == 1..NumRequests

----------------------------------------------------------------------------
(* Strings *)

Alphabet == {"a", "b", "A", " ", "-"}

AlphaNum == {"a", "b", "A", "B"}

Names == UNION {[1..n -> Alphabet] : n \in 0..MaxLen}

Prefix == <<"H", "e", "l", "l", "o", " ", "t", "h", "e", "r", "e", ",", " ">>

NoNameMsg == <<"n", "o", " ", "n", "a", "m", "e", " ",
               "p", "r", "o", "v", "i", "d", "e", "d">>

\* unicode.ToTitle on the alphabet.
ToTitle(c) == CASE c = "a" -> "A"
                [] c = "b" -> "B"
                [] OTHER -> c

\* strings.isSeparator: ASCII letters, digits and underscore are not
\* separators, every other ASCII character is.
isSeparator(c) == c \notin AlphaNum

TitleFirstOnly(s) ==
    [i \in 1..Len(s) |-> IF i = 1 THEN ToTitle(s[i]) ELSE s[i]]

\* strings.Title: prev starts as ' '; a character whose predecessor (in the
\* input) is a separator is mapped to title case, the others are kept.
Title(s) ==
    [i \in 1..Len(s) |->
        IF isSeparator(IF i = 1 THEN " " ELSE s[i - 1])
        THEN ToTitle(s[i])
        ELSE s[i]]

----------------------------------------------------------------------------
(* Errors *)

Nil == [isNil |-> TRUE, msg |-> <<>>]

ErrorsNew(m) == [isNil |-> FALSE, msg |-> m]

----------------------------------------------------------------------------
(* greetService.Hello *)

HelloTrimmed(s) ==
    IF \A i \in 1..Len(s) : s[i] = " "
    THEN [out |-> <<>>, err |-> ErrorsNew(NoNameMsg)]
    ELSE [out |-> Prefix \o Title(s), err |-> Nil]

HelloPartial(s) ==
    IF s = <<>>
    THEN [out |-> Prefix, err |-> ErrorsNew(NoNameMsg)]
    ELSE [out |-> Prefix \o Title(s), err |-> Nil]

Hello(s) ==
    IF s = <<>>
    THEN [out |-> <<>>, err |-> ErrorsNew(NoNameMsg)]
    ELSE [out |-> Prefix \o Title(s), err |-> Nil]

----------------------------------------------------------------------------
(* Request bodies and decodeHelloRequest *)

Truncated == [kind |-> "truncated", hasName |-> FALSE, name |-> <<>>]

WrongType == [kind |-> "wrongtype", hasName |-> TRUE, name |-> <<>>]

NoNameKey == [kind |-> "object", hasName |-> FALSE, name |-> <<>>]

WithName(n) == [kind |-> "object", hasName |-> TRUE, name |-> n]

NoBody == [kind |-> "none", hasName |-> FALSE, name |-> <<>>]

\* The bodies of the end-to-end scenarios: a name, an empty name, a name of
\* two words, a truncated body; and an object without the name key and one
\* whose name is not a string.
ScenarioBodies ==
    {WithName(<<"a", "b">>), WithName(<<>>), WithName(<<"a", " ", "b">>),
     Truncated, NoNameKey, WrongType}

AllBodies == {Truncated, WrongType, NoNameKey} \cup {WithName(n) : n \in Names}

helloRequest(n) == [Name |-> n]

\* json.Decoder.Decode into helloRequest: a syntax error or a name that is
\* not a JSON string is an error; an absent key leaves Name the empty string.
decodeHelloRequest(b) ==
    IF b.kind # "object"
    THEN [req |-> helloRequest(<<>>), err |-> ErrorsNew(<<b.kind>>)]
    ELSE [req |-> helloRequest(IF b.hasName THEN b.name ELSE <<>>), err |-> Nil]

----------------------------------------------------------------------------
(* helloResponse and encodeHelloResponse *)

helloResponse(g, e) == [Greeting |-> g, Err |-> e]

JString(s) == [kind |-> "string", str |-> s]

\* An object with no members.
JEmptyObject == [kind |-> "object", str |-> <<>>]

Member(k, v) == [key |-> k, val |-> v]

\* json.Marshal of a non-nil error holding *errors.errorString: a pointer to
\* a struct whose only field is unexported, hence the object {}.
MarshalError(e) == JEmptyObject

\* json.Encoder.Encode of a helloResponse: both fields are omitempty, so an
\* empty Greeting and a nil Err are left out.
encodeHelloResponse(resp) ==
    (IF resp.Greeting = <<>> THEN <<>>
     ELSE <<Member("greeting", JString(resp.Greeting))>>)
    \o
    (IF resp.Err.isNil THEN <<>>
     ELSE <<Member("err", MarshalError(resp.Err))>>)

----------------------------------------------------------------------------
(* The endpoint of makeHelloEndpoint *)

EndpointRaisesErr(ret) ==
    IF ~ret.err.isNil
    THEN [resp |-> helloResponse(<<>>, Nil), err |-> ret.err]
    ELSE [resp |-> helloResponse(ret.out, Nil), err |-> Nil]

\* ret is what svc.Hello(req.Name) returned.
EndpointResult(ret) ==
    IF ~ret.err.isNil
    THEN [resp |-> helloResponse(ret.out, ret.err), err |-> Nil]
    ELSE [resp |-> helloResponse(ret.out, Nil), err |-> Nil]

----------------------------------------------------------------------------
(* loggingMiddleware.Hello *)

\* The activation that holds the named results of request r's call.
SharedFrame(r) == 1

Frame(r) == r

MwReturnSwallowsErr(f) == [out |-> f.output, err |-> Nil]

\* return: the named results output and err.
MwReturn(f) == [out |-> f.output, err |-> f.err]

LogRecordErrAtDefer(r, f, took) ==
    [by |-> r, method |-> "Hello", input |-> f.s, err |-> Nil, took |-> took]

\* The deferred mw.logger.Log call; by is the goroutine that wrote it.
LogRecord(r, f, took) ==
    [by |-> r, method |-> "Hello", input |-> f.s, err |-> f.err, took |-> took]

ZeroFrame == [s |-> <<>>, output |-> <<>>, err |-> Nil]

ZeroRet == [out |-> <<>>, err |-> Nil]

----------------------------------------------------------------------------
(* The kithttp server: ServeHTTP, one goroutine per request *)

StatusOK == 200

\* The default error encoder answers a decode error with 400 Bad Request in
\* the go-kit versions that tell the domains apart, with 500 in the others.
DecodeErrorStatuses == {400, 500}

EndpointErrorStatus == 500

Init ==
    /\ pc = [r \in Requests |-> "idle"]
    /\ body = [r \in Requests |-> NoBody]
    /\ request = [r \in Requests |-> helloRequest(<<>>)]
    /\ frame = [r \in Requests |-> ZeroFrame]
    /\ nextCalls = [r \in Requests |-> <<>>]
    /\ inner = [r \in Requests |-> ZeroRet]
    /\ svcRet = [r \in Requests |-> ZeroRet]
    /\ response = [r \in Requests |-> helloResponse(<<>>, Nil)]
    /\ epErr = [r \in Requests |-> Nil]
    /\ status = [r \in Requests |-> 0]
    /\ wire = [r \in Requests |-> <<>>]
    /\ log = <<>>
    /\ hist = [r \in Requests |-> <<>>]

\* net/http hands a request with body b to helloHandler in a new goroutine.
Arrive(r, b) ==
    /\ pc[r] = "idle"
    /\ pc' = [pc EXCEPT ![r] = "decode"]
    /\ body' = [body EXCEPT ![r] = b]
    /\ UNCHANGED <<request, frame, nextCalls, inner, svcRet, response, epErr,
                   status, wire, log, hist>>

DecodeIgnoresErr(r) ==
    /\ pc[r] = "decode"
    /\ request' = [request EXCEPT ![r] = decodeHelloRequest(body[r]).req]
    /\ hist' = [hist EXCEPT ![r] = Append(@, "decode")]
    /\ pc' = [pc EXCEPT ![r] = "endpoint"]
    /\ UNCHANGED <<body, frame, nextCalls, inner, svcRet, response, epErr,
                   status, wire, log>>

\* ServeHTTP: request, err := s.dec(ctx, r); on an error the error encoder
\* answers and ServeHTTP returns.
Decode(r) ==
    /\ pc[r] = "decode"
    /\ LET d == decodeHelloRequest(body[r]) IN
        /\ request' = [request EXCEPT ![r] = d.req]
        /\ hist' = [hist EXCEPT ![r] = Append(@, "decode")]
        /\ IF d.err.isNil
           THEN /\ pc' = [pc EXCEPT ![r] = "endpoint"]
                /\ UNCHANGED status
           ELSE /\ pc' = [pc EXCEPT ![r] = "done"]
                /\ \E c \in DecodeErrorStatuses :
                      status' = [status EXCEPT ![r] = c]
    /\ UNCHANGED <<body, frame, nextCalls, inner, svcRet, response, epErr,
                   wire, log>>

\* The endpoint asserts the request's type and calls svc.Hello(req.Name),
\* which is loggingMiddleware.Hello: the named results start at their zero
\* values and the deferred function is registered.
EndpointCall(r) ==
    /\ pc[r] = "endpoint"
    /\ frame' = [frame EXCEPT ![Frame(r)] =
                    [s |-> request[r].Name, output |-> <<>>, err |-> Nil]]
    /\ hist' = [hist EXCEPT ![r] = Append(@, "endpoint")]
    /\ pc' = [pc EXCEPT ![r] = "mw_next"]
    /\ UNCHANGED <<body, request, nextCalls, inner, svcRet, response, epErr,
                   status, wire, log>>

\* output, err = mw.next.Hello(s)
MwNext(r) ==
    /\ pc[r] = "mw_next"
    /\ LET f == frame[Frame(r)]
           res == Hello(f.s) IN
        /\ nextCalls' = [nextCalls EXCEPT ![r] = Append(@, f.s)]
        /\ inner' = [inner EXCEPT ![r] = res]
        /\ frame' = [frame EXCEPT ![Frame(r)] =
                        [s |-> f.s, output |-> res.out, err |-> res.err]]
    /\ hist' = [hist EXCEPT ![r] = Append(@, "service")]
    /\ pc' = [pc EXCEPT ![r] = "mw_defer"]
    /\ UNCHANGED <<body, request, svcRet, response, epErr, status, wire, log>>

\* return: the deferred function logs one record (one Write to os.Stderr),
\* then the named results go back to the endpoint.
MwDeferLog(r) ==
    /\ pc[r] = "mw_defer"
    /\ \E took \in 0..MaxTook :
          log' = Append(log, LogRecord(r, frame[Frame(r)], took))
    /\ svcRet' = [svcRet EXCEPT ![r] = MwReturn(frame[Frame(r)])]
    /\ hist' = [hist EXCEPT ![r] = Append(@, "log")]
    /\ pc' = [pc EXCEPT ![r] = "ep_return"]
    /\ UNCHANGED <<body, request, frame, nextCalls, inner, response, epErr,
                   status, wire>>

\* The endpoint wraps resp and err in a helloResponse and returns it.
EndpointReturn(r) ==
    /\ pc[r] = "ep_return"
    /\ LET e == EndpointResult(svcRet[r]) IN
        /\ response' = [response EXCEPT ![r] = e.resp]
        /\ epErr' = [epErr EXCEPT ![r] = e.err]
    /\ hist' = [hist EXCEPT ![r] = Append(@, "return")]
    /\ pc' = [pc EXCEPT ![r] = "encode"]
    /\ UNCHANGED <<body, request, frame, nextCalls, inner, svcRet, status,
                   wire, log>>

\* ServeHTTP: an endpoint error goes to the error encoder; otherwise
\* s.enc writes the response, and the first write sends status 200.
Encode(r) ==
    /\ pc[r] = "encode"
    /\ IF epErr[r].isNil
       THEN /\ status' = [status EXCEPT ![r] = StatusOK]
            /\ wire' = [wire EXCEPT ![r] = encodeHelloResponse(response[r])]
            /\ hist' = [hist EXCEPT ![r] = Append(@, "encode")]
       ELSE /\ status' = [status EXCEPT ![r] = EndpointErrorStatus]
            /\ UNCHANGED <<wire, hist>>
    /\ pc' = [pc EXCEPT ![r] = "done"]
    /\ UNCHANGED <<body, request, frame, nextCalls, inner, svcRet, response,
                   epErr, log>>

\* Requests in flight together, with the bodies of the scenarios.
Next ==
    \E r \in Requests :
        \/ \E b \in ScenarioBodies : Arrive(r, b)
        \/ Decode(r)
        \/ EndpointCall(r)
        \/ MwNext(r)
        \/ MwDeferLog(r)
        \/ EndpointReturn(r)
        \/ Encode(r)

Spec == Init /\ [][Next]_vars

\* One request handled alone, with every body up to MaxLen.
NextAlone ==
    \/ \E b \in AllBodies : Arrive(1, b)
    \/ Decode(1)
    \/ EndpointCall(1)
    \/ MwNext(1)
    \/ MwDeferLog(1)
    \/ EndpointReturn(1)
    \/ Encode(1)

SpecAlone == Init /\ [][NextAlone]_vars

----------------------------------------------------------------------------
(* What the claims speak of *)

InHist(r, step) == \E i \in 1..Len(hist[r]) : hist[r][i] = step

\* The wrapped greetService.Hello has been called for r, with argument Arg(r).
Called(r) == nextCalls[r] # <<>>

Arg(r) == nextCalls[r][1]

DecodeOk(r) == decodeHelloRequest(body[r]).err.isNil

Letters == {"a", "b", "A"}

IsAlphabetic(s) == \A i \in 1..Len(s) : s[i] \in Letters \cup {" "}

UpperOf(c) == CASE c = "a" -> "A"
                [] c = "b" -> "B"
                [] OTHER -> c

\* The first letter of each whitespace-separated word upper-cased.
TitleCaseWords(s) ==
    [i \in 1..Len(s) |->
        IF i = 1 \/ s[i - 1] = " " THEN UpperOf(s[i]) ELSE s[i]]

RecordsBy(r) == {i \in 1..Len(log) : log[i].by = r}

FullRun == <<"decode", "endpoint", "service", "log", "return", "encode">>

IsPrefix(s, t) == Len(s) <= Len(t) /\ \A i \in 1..Len(s) : s[i] = t[i]

\* What a request with body b gets when it is the only request: the status,
\* the JSON members and the call's log record (without its duration).
AloneOutcome(b) ==
    LET d == decodeHelloRequest(b) IN
    IF ~d.err.isNil
    THEN [ok |-> FALSE, wire |-> <<>>, logged |-> FALSE,
          input |-> <<>>, err |-> Nil]
    ELSE LET h == Hello(d.req.Name)
             f == [s |-> d.req.Name, output |-> h.out, err |-> h.err]
             e == EndpointResult(MwReturn(f)) IN
         [ok |-> TRUE, wire |-> encodeHelloResponse(e.resp), logged |-> TRUE,
          input |-> d.req.Name, err |-> h.err]

----------------------------------------------------------------------------
(* The claims *)

\* C1: for every non-empty alphabetic name, greetService.Hello returns
\* "Hello there, " followed by the name with the first letter of each
\* whitespace-separated word upper-cased, and no error.
C1_HelloTitleCases ==
    \A r \in Requests :
        (Called(r) /\ Arg(r) # <<>> /\ IsAlphabetic(Arg(r)))
        => inner[r] = [out |-> Prefix \o TitleCaseWords(Arg(r)), err |-> Nil]

C1_Witness ==
    \E r \in Requests :
        /\ Called(r)
        /\ Arg(r) = <<"a", " ", "b">>
        /\ inner[r] = [out |-> Prefix \o <<"A", " ", "B">>, err |-> Nil]

\* C2: greetService.Hello returns an error exactly when the name is the
\* empty string; then the error is "no name provided" and the greeting is
\* empty; every other name, a whitespace-only one included, gives no error.
C2_ErrorIffEmpty ==
    \A r \in Requests :
        Called(r) =>
            /\ (~inner[r].err.isNil) <=> (Arg(r) = <<>>)
            /\ Arg(r) = <<>> =>
                  inner[r] = [out |-> <<>>, err |-> ErrorsNew(NoNameMsg)]

C2_Witness ==
    \E r \in Requests :
        /\ Called(r)
        /\ Arg(r) = <<>>
        /\ inner[r] = [out |-> <<>>, err |-> ErrorsNew(NoNameMsg)]

\* C3: loggingMiddleware.Hello(x) calls the wrapped Hello exactly once, with
\* the same x, and returns the greeting and the error the wrapped call
\* returned, whether it succeeded or failed.
C3_MiddlewareTransparent ==
    \A r \in Requests :
        InHist(r, "log") =>
            /\ nextCalls[r] = <<request[r].Name>>
            /\ svcRet[r] = inner[r]

C3_Witness ==
    \E r \in Requests :
        /\ InHist(r, "log")
        /\ ~inner[r].err.isNil
        /\ svcRet[r] = inner[r]

\* C4: in every helloResponse the endpoint builds, Err is set iff the Hello
\* call failed, and Greeting is empty iff Err is set.
C4_ResponseErrorXorGreeting ==
    \A r \in Requests :
        InHist(r, "return") =>
            /\ (~response[r].Err.isNil) <=> (~svcRet[r].err.isNil)
            /\ (response[r].Greeting = <<>>) <=> (~response[r].Err.isNil)

C4_Witness ==
    \E r \in Requests :
        /\ InHist(r, "return")
        /\ ~svcRet[r].err.isNil
        /\ response[r] = helloResponse(<<>>, ErrorsNew(NoNameMsg))

\* C5: the endpoint never returns an error of its own: whether Hello
\* succeeds or fails it returns a helloResponse and a nil error, and a
\* failure of Hello appears only in the response's Err field.
C5_EndpointErrorNil ==
    \A r \in Requests :
        InHist(r, "return") =>
            /\ epErr[r].isNil
            /\ response[r].Err = svcRet[r].err

C5_Witness ==
    \E r \in Requests :
        /\ InHist(r, "return")
        /\ svcRet[r].err = ErrorsNew(NoNameMsg)
        /\ epErr[r].isNil
        /\ response[r].Err = ErrorsNew(NoNameMsg)

\* C6: a request with an empty name is answered with status 200 and the
\* JSON object whose members are greeting, the empty string, and err, the
\* string "no name provided".
C6_EmptyNameBody ==
    \A r \in Requests :
        (pc[r] = "done" /\ DecodeOk(r) /\ request[r].Name = <<>>)
        => /\ status[r] = StatusOK
           /\ wire[r] = <<Member("greeting", JString(<<>>)),
                          Member("err", JString(NoNameMsg))>>

\* C7: each call writes exactly one log record, with method "Hello", the
\* name passed in as input, the error the wrapped call returned as err, and
\* a duration; it is written after the wrapped call returned, on success
\* and on failure alike, never zero times and never twice.
C7_OneLogRecordPerCall ==
    \A r \in Requests :
        /\ Cardinality(RecordsBy(r)) = (IF InHist(r, "log") THEN 1 ELSE 0)
        /\ InHist(r, "return") => Cardinality(RecordsBy(r)) = 1
        /\ \A i \in RecordsBy(r) :
              /\ Called(r)
              /\ log[i].method = "Hello"
              /\ log[i].input = request[r].Name
              /\ log[i].err = inner[r].err
              /\ log[i].took \in Nat

C7_Witness ==
    \E r \in Requests :
        /\ pc[r] = "done"
        /\ Cardinality(RecordsBy(r)) = 1
        /\ \E i \in RecordsBy(r) : log[i].err = ErrorsNew(NoNameMsg)

\* C8: the status is 200 for every request whose body decodes, one with an
\* empty name included, and another status is written only when
\* decodeHelloRequest returned an error.
C8_StatusFollowsDecode ==
    \A r \in Requests :
        pc[r] = "done" => ((status[r] = StatusOK) <=> DecodeOk(r))

C8_Witness ==
    \E r, q \in Requests :
        /\ pc[r] = "done" /\ body[r] = WithName(<<>>) /\ status[r] = StatusOK
        /\ pc[q] = "done" /\ body[q] = Truncated /\ status[q] # StatusOK

\* C9: for every request the steps run in the order decode, endpoint,
\* encode: the endpoint, and through it the decorator and the service, runs
\* at most once and only after the decode succeeded, encode only after the
\* endpoint returned; a request whose decode fails reaches neither the
\* service nor the log.
C9_DecodeEndpointEncodeOrder ==
    \A r \in Requests :
        /\ IsPrefix(hist[r], FullRun)
        /\ Len(nextCalls[r]) <= 1
        /\ (hist[r] # <<>> /\ ~DecodeOk(r)) =>
              /\ hist[r] = <<"decode">>
              /\ ~Called(r)
              /\ RecordsBy(r) = {}

C9_Witness ==
    \E r, q \in Requests :
        /\ pc[r] = "done" /\ ~DecodeOk(r) /\ hist[r] = <<"decode">>
        /\ pc[q] = "done" /\ hist[q] = FullRun

\* C10: requests handled at once do not interfere: under every interleaving
\* each request's response and log record depend on its own body only, and
\* are those it gets when handled alone.
C10_NoInterference ==
    \A r \in Requests :
        LET a == AloneOutcome(body[r]) IN
        /\ pc[r] = "done" =>
              /\ (status[r] = StatusOK) <=> a.ok
              /\ wire[r] = a.wire
              /\ (RecordsBy(r) # {}) <=> a.logged
        /\ \A i \in RecordsBy(r) :
              /\ a.logged
              /\ log[i].method = "Hello"
              /\ log[i].input = a.input
              /\ log[i].err = a.err

\* Request 2 logged first and is still in its endpoint when request 1, with
\* another body, has been answered.
C10_Witness ==
    /\ Len(log) = 2 /\ log[1].by = 2 /\ log[2].by = 1
    /\ pc[1] = "done" /\ pc[2] = "ep_return"
    /\ body[1] = WithName(<<>>) /\ body[2] = WithName(<<"a", " ", "b">>)
    /\ wire[1] = AloneOutcome(body[1]).wire

====
